---------------------------- MODULE Spec2Model ----------------------------
(***************************************************************************)
(* MutaGate: PR-scoped mutation testing quality gate.                      *)
(*                                                                         *)
(* The module models the mutant generator (src/mutators.py) over syntax    *)
(* trees taken from CPython's ast for a small catalog of sources, and the  *)
(* evaluation pipeline (src/mutagate.py: test_mutant and                   *)
(* run_mutation_testing) as a state machine with one step per statement    *)
(* that touches the file system, the test command or the result list.      *)
(*                                                                         *)
(* Numbers with one decimal place (kill rate, threshold) are integers in   *)
(* tenths of a percent: 66.7 is 667, 100.0 is 1000.                        *)
(***************************************************************************)
EXTENDS Integers, Sequences, FiniteSets, TLC

(* ----------------------------- bounds ---------------------------------- *)
\* most entries of a ChangeSet
MaxFiles == 2

(* --------------------------- syntax trees ------------------------------ *)
\* getattr(node, "lineno", None) is None
NoLine == 0
\* getattr(node, "_mid", -1)
NoMid == -1

(* A tree is [root, obj]: obj is the sequence of node objects, children    *)
(* are (field name, object index) pairs in ast.iter_child_nodes order.     *)
(* One object may be the child of several nodes: CPython's parser hands    *)
(* out one shared instance per operator and per expression context.        *)
\* SrcArith is 'x = 1 + 2\ny = 3 + 4\n'; ast.walk visits 15 nodes, 13 distinct objects
TreeSrcArith ==
  [root |-> 1, obj |-> <<
    [kind |-> "Module", text |-> "", lineno |-> NoLine, mid |-> NoMid,
     children |-> <<[f |-> "body", id |-> 2], [f |-> "body", id |-> 3]>>],
    [kind |-> "Assign", text |-> "", lineno |-> 1, mid |-> NoMid,
     children |-> <<[f |-> "targets", id |-> 4], [f |-> "value", id |-> 5]>>],
    [kind |-> "Assign", text |-> "", lineno |-> 2, mid |-> NoMid,
     children |-> <<[f |-> "targets", id |-> 6], [f |-> "value", id |-> 7]>>],
    [kind |-> "Name", text |-> "x", lineno |-> 1, mid |-> NoMid,
     children |-> <<[f |-> "ctx", id |-> 8]>>],
    [kind |-> "BinOp", text |-> "", lineno |-> 1, mid |-> NoMid,
     children |-> <<[f |-> "left", id |-> 9], [f |-> "op", id |-> 10], [f |-> "right", id |-> 11]>>],
    [kind |-> "Name", text |-> "y", lineno |-> 2, mid |-> NoMid,
     children |-> <<[f |-> "ctx", id |-> 8]>>],
    [kind |-> "BinOp", text |-> "", lineno |-> 2, mid |-> NoMid,
     children |-> <<[f |-> "left", id |-> 12], [f |-> "op", id |-> 10], [f |-> "right", id |-> 13]>>],
    [kind |-> "Store", text |-> "", lineno |-> NoLine, mid |-> NoMid,
     children |-> <<>>],
    [kind |-> "Constant", text |-> "1", lineno |-> 1, mid |-> NoMid,
     children |-> <<>>],
    [kind |-> "Add", text |-> "", lineno |-> NoLine, mid |-> NoMid,
     children |-> <<>>],
    [kind |-> "Constant", text |-> "2", lineno |-> 1, mid |-> NoMid,
     children |-> <<>>],
    [kind |-> "Constant", text |-> "3", lineno |-> 2, mid |-> NoMid,
     children |-> <<>>],
    [kind |-> "Constant", text |-> "4", lineno |-> 2, mid |-> NoMid,
     children |-> <<>>]
  >>]
\* SrcRetNone is 'def f():\n    return None\n'; ast.walk visits 5 nodes, 5 distinct objects
TreeSrcRetNone ==
  [root |-> 1, obj |-> <<
    [kind |-> "Module", text |-> "", lineno |-> NoLine, mid |-> NoMid,
     children |-> <<[f |-> "body", id |-> 2]>>],
    [kind |-> "FunctionDef", text |-> "f", lineno |-> 1, mid |-> NoMid,
     children |-> <<[f |-> "args", id |-> 3], [f |-> "body", id |-> 4]>>],
    [kind |-> "arguments", text |-> "", lineno |-> NoLine, mid |-> NoMid,
     children |-> <<>>],
    [kind |-> "Return", text |-> "", lineno |-> 2, mid |-> NoMid,
     children |-> <<[f |-> "value", id |-> 5]>>],
    [kind |-> "Constant", text |-> "None", lineno |-> 2, mid |-> NoMid,
     children |-> <<>>]
  >>]
\* SrcCmp is 'def f(a, b):\n    return a < b <= 9\n'; ast.walk visits 14 nodes, 13 distinct objects
TreeSrcCmp ==
  [root |-> 1, obj |-> <<
    [kind |-> "Module", text |-> "", lineno |-> NoLine, mid |-> NoMid,
     children |-> <<[f |-> "body", id |-> 2]>>],
    [kind |-> "FunctionDef", text |-> "f", lineno |-> 1, mid |-> NoMid,
     children |-> <<[f |-> "args", id |-> 3], [f |-> "body", id |-> 4]>>],
    [kind |-> "arguments", text |-> "", lineno |-> NoLine, mid |-> NoMid,
     children |-> <<[f |-> "args", id |-> 5], [f |-> "args", id |-> 6]>>],
    [kind |-> "Return", text |-> "", lineno |-> 2, mid |-> NoMid,
     children |-> <<[f |-> "value", id |-> 7]>>],
    [kind |-> "arg", text |-> "a", lineno |-> 1, mid |-> NoMid,
     children |-> <<>>],
    [kind |-> "arg", text |-> "b", lineno |-> 1, mid |-> NoMid,
     children |-> <<>>],
    [kind |-> "Compare", text |-> "", lineno |-> 2, mid |-> NoMid,
     children |-> <<[f |-> "left", id |-> 8], [f |-> "ops", id |-> 9], [f |-> "ops", id |-> 10], [f |-> "comparators", id |-> 11], [f |-> "comparators", id |-> 12]>>],
    [kind |-> "Name", text |-> "a", lineno |-> 2, mid |-> NoMid,
     children |-> <<[f |-> "ctx", id |-> 13]>>],
    [kind |-> "Lt", text |-> "", lineno |-> NoLine, mid |-> NoMid,
     children |-> <<>>],
    [kind |-> "LtE", text |-> "", lineno |-> NoLine, mid |-> NoMid,
     children |-> <<>>],
    [kind |-> "Name", text |-> "b", lineno |-> 2, mid |-> NoMid,
     children |-> <<[f |-> "ctx", id |-> 13]>>],
    [kind |-> "Constant", text |-> "9", lineno |-> 2, mid |-> NoMid,
     children |-> <<>>],
    [kind |-> "Load", text |-> "", lineno |-> NoLine, mid |-> NoMid,
     children |-> <<>>]
  >>]
\* SrcIf is 'def f(a, b):\n    if a and b: return\n    return a % b\n'; ast.walk visits 20 nodes, 17 distinct objects
TreeSrcIf ==
  [root |-> 1, obj |-> <<
    [kind |-> "Module", text |-> "", lineno |-> NoLine, mid |-> NoMid,
     children |-> <<[f |-> "body", id |-> 2]>>],
    [kind |-> "FunctionDef", text |-> "f", lineno |-> 1, mid |-> NoMid,
     children |-> <<[f |-> "args", id |-> 3], [f |-> "body", id |-> 4], [f |-> "body", id |-> 5]>>],
    [kind |-> "arguments", text |-> "", lineno |-> NoLine, mid |-> NoMid,
     children |-> <<[f |-> "args", id |-> 6], [f |-> "args", id |-> 7]>>],
    [kind |-> "If", text |-> "", lineno |-> 2, mid |-> NoMid,
     children |-> <<[f |-> "test", id |-> 8], [f |-> "body", id |-> 9]>>],
    [kind |-> "Return", text |-> "", lineno |-> 3, mid |-> NoMid,
     children |-> <<[f |-> "value", id |-> 10]>>],
    [kind |-> "arg", text |-> "a", lineno |-> 1, mid |-> NoMid,
     children |-> <<>>],
    [kind |-> "arg", text |-> "b", lineno |-> 1, mid |-> NoMid,
     children |-> <<>>],
    [kind |-> "BoolOp", text |-> "", lineno |-> 2, mid |-> NoMid,
     children |-> <<[f |-> "op", id |-> 11], [f |-> "values", id |-> 12], [f |-> "values", id |-> 13]>>],
    [kind |-> "Return", text |-> "", lineno |-> 2, mid |-> NoMid,
     children |-> <<>>],
    [kind |-> "BinOp", text |-> "", lineno |-> 3, mid |-> NoMid,
     children |-> <<[f |-> "left", id |-> 14], [f |-> "op", id |-> 15], [f |-> "right", id |-> 16]>>],
    [kind |-> "And", text |-> "", lineno |-> NoLine, mid |-> NoMid,
     children |-> <<>>],
    [kind |-> "Name", text |-> "a", lineno |-> 2, mid |-> NoMid,
     children |-> <<[f |-> "ctx", id |-> 17]>>],
    [kind |-> "Name", text |-> "b", lineno |-> 2, mid |-> NoMid,
     children |-> <<[f |-> "ctx", id |-> 17]>>],
    [kind |-> "Name", text |-> "a", lineno |-> 3, mid |-> NoMid,
     children |-> <<[f |-> "ctx", id |-> 17]>>],
    [kind |-> "Mod", text |-> "", lineno |-> NoLine, mid |-> NoMid,
     children |-> <<>>],
    [kind |-> "Name", text |-> "b", lineno |-> 3, mid |-> NoMid,
     children |-> <<[f |-> "ctx", id |-> 17]>>],
    [kind |-> "Load", text |-> "", lineno |-> NoLine, mid |-> NoMid,
     children |-> <<>>]
  >>]

\* the subject sources; SrcBroken is "def broken(:", which does not parse
SourceNames == {"SrcArith", "SrcRetNone", "SrcCmp", "SrcIf", "SrcBroken"}

\* ast.parse raises SyntaxError
ParseFails(source) == source = "SrcBroken"

\* ast.parse(source)
Parse(source) ==
  CASE source = "SrcArith" -> TreeSrcArith
    [] source = "SrcRetNone" -> TreeSrcRetNone
    [] source = "SrcCmp" -> TreeSrcCmp
    [] OTHER -> TreeSrcIf

ARITH == [Add |-> "Sub", Sub |-> "Add", Mult |-> "Div", Div |-> "Mult"]
CMP == [Lt |-> "LtE", LtE |-> "Lt", Gt |-> "GtE", GtE |-> "Gt",
        Eq |-> "NotEq", NotEq |-> "Eq"]
BOOL == [And |-> "Or", Or |-> "And"]

SUGGESTIONS ==
  [arithmetic |-> "Add assertion checking the computed result value",
   comparison |-> "Add boundary/edge-case tests (off-by-one values)",
   return_value |-> "Assert the return value explicitly, don't just call the function",
   boolean |-> "Test both true and false branches of this condition",
   negate_cond |-> "Ensure tests cover both outcomes of this conditional"]

\* ast.iter_child_nodes(node), as object indices
ChildIds(t, o) == [i \in DOMAIN t.obj[o].children |-> t.obj[o].children[i].id]

\* the children of node o held in field f, in order
RECURSIVE FieldOf(_, _)
FieldOf(cs, f) ==
  IF cs = <<>> THEN <<>>
  ELSE (IF Head(cs).f = f THEN <<Head(cs).id>> ELSE <<>>) \o FieldOf(Tail(cs), f)

Field(t, o, f) == FieldOf(t.obj[o].children, f)

\* ast.walk(tree): breadth first, a shared object is visited once per parent
RECURSIVE WalkFrom(_, _)
WalkFrom(t, todo) ==
  IF todo = <<>> THEN <<>>
  ELSE <<Head(todo)>> \o WalkFrom(t, Tail(todo) \o ChildIds(t, Head(todo)))

Walk(t) == WalkFrom(t, <<t.root>>)

\* _label(tree): node._mid = i for i, node in enumerate(ast.walk(tree));
\* an object visited more than once keeps the index of its last visit
_label(t) ==
  LET w == Walk(t)
      Visits(o) == {i \in DOMAIN w : w[i] = o}
      Last(o) == CHOOSE i \in Visits(o) : \A j \in Visits(o) : j <= i
  IN [t EXCEPT !.obj = [o \in DOMAIN t.obj |->
        IF Visits(o) = {} THEN t.obj[o]
        ELSE [t.obj[o] EXCEPT !.mid = Last(o) - 1]]]

\* `target_lines and ...`: an empty set (like None) is falsy
Truthy(target_lines) == target_lines # {}

\* the line filter of _collect_sites, line 32 (TRUE = `continue`)
SkipNode(ln, target_lines) ==
  ln = NoLine \/ (Truthy(target_lines) /\ ln \notin target_lines)

Site(mid, ln, operator, desc, kind, idx, new_t) ==
  [mid |-> mid, ln |-> ln, operator |-> operator, desc |-> desc,
   mutation |-> [kind |-> kind, idx |-> idx, new_t |-> new_t]]

\* one site per operator of a Compare node that is in CMP, lines 41-46
RECURSIVE CompareSites(_, _, _, _)
CompareSites(t, o, ops, i) ==
  IF i > Len(ops) THEN <<>>
  ELSE LET k == t.obj[ops[i]].kind IN
       (IF k \in DOMAIN CMP
        THEN <<Site(t.obj[o].mid, t.obj[o].lineno, "comparison",
                    <<k, "->", CMP[k]>>, "cmp", i - 1, CMP[k])>>
        ELSE <<>>) \o CompareSites(t, o, ops, i + 1)

\* the body of the loop of _collect_sites for one node, lines 34-57
NodeSites(t, o) ==
  LET node == t.obj[o]
      opk == IF Field(t, o, "op") = <<>> THEN "" ELSE t.obj[Field(t, o, "op")[1]].kind
  IN (IF node.kind = "BinOp" /\ opk \in DOMAIN ARITH
      THEN <<Site(node.mid, node.lineno, "arithmetic",
                  <<opk, "->", ARITH[opk]>>, "op", 0, ARITH[opk])>> ELSE <<>>)
  \o (IF node.kind = "Compare"
      THEN CompareSites(t, o, Field(t, o, "ops"), 1) ELSE <<>>)
  \o (IF node.kind = "Return" /\ Field(t, o, "value") # <<>>
      THEN <<Site(node.mid, node.lineno, "return_value",
                  <<"return value -> return None">>, "ret", 0, "")>> ELSE <<>>)
  \o (IF node.kind = "BoolOp" /\ opk \in DOMAIN BOOL
      THEN <<Site(node.mid, node.lineno, "boolean",
                  <<opk, "->", BOOL[opk]>>, "op", 0, BOOL[opk])>> ELSE <<>>)
  \o (IF node.kind = "If"
      THEN <<Site(node.mid, node.lineno, "negate_cond",
                  <<"if cond -> if not cond">>, "negate", 0, "")>> ELSE <<>>)

RECURSIVE CollectFrom(_, _, _, _)
CollectFrom(t, w, i, target_lines) ==
  IF i > Len(w) THEN <<>>
  ELSE (IF SkipNode(t.obj[w[i]].lineno, target_lines) THEN <<>>
        ELSE NodeSites(t, w[i]))
       \o CollectFrom(t, w, i + 1, target_lines)

\* _collect_sites(tree, target_lines)
_collect_sites(t, target_lines) == CollectFrom(t, Walk(t), 1, target_lines)

\* a node object created by a rewrite: no _mid, no position yet
NewNode(kind, text, children) ==
  [kind |-> kind, text |-> text, lineno |-> NoLine, mid |-> NoMid,
   children |-> children]

\* assignment to a single-node field: the first child in field f becomes n,
\* and the field is added when the node did not have it
SetField(cs, f, n) ==
  IF \E i \in DOMAIN cs : cs[i].f = f
  THEN LET k == CHOOSE i \in DOMAIN cs : cs[i].f = f /\ \A j \in 1..(i - 1) : cs[j].f # f
       IN [cs EXCEPT ![k] = [f |-> f, id |-> n]]
  ELSE Append(cs, [f |-> f, id |-> n])

\* node.ops[idx] = n
SetOps(cs, idx, n) ==
  LET pos == {i \in DOMAIN cs : cs[i].f = "ops"}
      k == CHOOSE i \in pos : Cardinality({j \in pos : j < i}) = idx
  IN [cs EXCEPT ![k] = [f |-> "ops", id |-> n]]

\* the rewrite of _apply_site on node o, lines 66-74
Rewrite(t, o, mutation) ==
  LET n == Len(t.obj) + 1
      cs == t.obj[o].children
      With(children, fresh) ==
        [root |-> t.root,
         obj |-> [i \in DOMAIN t.obj |->
                    IF i = o THEN [t.obj[i] EXCEPT !.children = children]
                    ELSE t.obj[i]] \o fresh]
  IN CASE mutation.kind = "op" ->
            With(SetField(cs, "op", n), <<NewNode(mutation.new_t, "", <<>>)>>)
       [] mutation.kind = "cmp" ->
            With(SetOps(cs, mutation.idx, n), <<NewNode(mutation.new_t, "", <<>>)>>)
       [] mutation.kind = "ret" ->
            With(SetField(cs, "value", n), <<NewNode("Constant", "None", <<>>)>>)
       [] mutation.kind = "negate" ->
            With(SetField(cs, "test", n),
                 <<NewNode("UnaryOp", "",
                           <<[f |-> "op", id |-> n + 1],
                             [f |-> "operand", id |-> Field(t, o, "test")[1]]>>),
                   NewNode("Not", "", <<>>)>>)
       [] OTHER -> t

\* _apply_site(tree, mid, mutation): the first node of the walk whose _mid
\* is mid is rewritten; no node is rewritten when there is none
_apply_site(t, mid, mutation) ==
  LET w == Walk(t)
      hits == {i \in DOMAIN w : t.obj[w[i]].mid = mid}
  IN IF hits = {} THEN t
     ELSE Rewrite(t, w[CHOOSE i \in hits : \A j \in hits : i <= j], mutation)

\* node kinds that carry a position ('lineno' in node._attributes)
LocatedKinds == {"Constant", "UnaryOp", "Name", "BinOp", "BoolOp", "Compare",
                 "Return", "If", "Assign", "FunctionDef", "arg"}

\* ast.fix_missing_locations(tree): a located node without a line takes its
\* parent's line
fix_missing_locations(t) ==
  LET ParentLine(o) ==
        LET ps == {p \in DOMAIN t.obj : \E i \in DOMAIN t.obj[p].children :
                                          t.obj[p].children[i].id = o}
        IN IF ps = {} THEN 1 ELSE t.obj[CHOOSE p \in ps : TRUE].lineno
  IN [t EXCEPT !.obj = [o \in DOMAIN t.obj |->
        IF t.obj[o].kind \in LocatedKinds /\ t.obj[o].lineno = NoLine
        THEN [t.obj[o] EXCEPT !.lineno = ParentLine(o)]
        ELSE t.obj[o]]]

\* ast.unparse, from node o: the source text as a token sequence; expression
\* contexts (Load/Store) leave no trace in the text
RECURSIVE UnparseNode(_, _)
RECURSIVE UnparseAll(_, _)
UnparseNode(t, o) ==
  LET node == t.obj[o]
      kids == SelectSeq(node.children, LAMBDA c : c.f # "ctx")
  IN <<node.kind>> \o (IF node.text = "" THEN <<>> ELSE <<node.text>>)
     \o (IF kids = <<>> THEN <<>>
         ELSE <<"(">> \o UnparseAll(t, [i \in DOMAIN kids |-> kids[i].id]) \o <<")">>)
UnparseAll(t, os) ==
  IF os = <<>> THEN <<>> ELSE UnparseNode(t, Head(os)) \o UnparseAll(t, Tail(os))

unparse(t) == UnparseNode(t, t.root)

\* the tree tc of one iteration of the loop of apply_mutations, lines 88-91:
\* a deep copy of the labelled baseline, labelled again, rewritten at the
\* site, positions filled in
MutatedTree(tree, site) ==
  fix_missing_locations(_apply_site(_label(tree), site.mid, site.mutation))

Mutant(tree, site) ==
  [code |-> unparse(MutatedTree(tree, site)), line |-> site.ln,
   operator |-> site.operator, description |-> site.desc,
   suggestion |-> SUGGESTIONS[site.operator]]

\* apply_mutations(source, target_lines); ast.unparse raises on none of the
\* trees the rewrites produce, so no site is dropped at lines 94-95
apply_mutations(source, target_lines) ==
  IF ParseFails(source) THEN <<>>
  ELSE LET tree == _label(Parse(source))
           sites == _collect_sites(tree, target_lines)
       IN [i \in DOMAIN sites |-> Mutant(tree, sites[i])]

(* ------------------------- files and reports --------------------------- *)
\* a path with no file behind it (os.path.exists is False)
Absent == [t |-> "absent", name |-> "", code |-> <<>>]
\* a file holding one of the subject sources
SrcFile(n) == [t |-> "text", name |-> n, code |-> <<>>]
\* a file holding the text f.write(mutant_code) wrote
CodeFile(c) == [t |-> "text", name |-> "", code |-> c]
\* open(path, "w") truncated the file and the write did not complete
Truncated == [t |-> "text", name |-> "", code |-> <<>>]
\* the file after the test command itself wrote to it
Clobbered == [t |-> "text", name |-> "clobbered", code |-> <<>>]

\* threshold=80.0, in tenths of a percent
DefaultThreshold == 800
\* the thresholds of the model: 66.7, the default, and one no rate can reach
Thresholds == {667, DefaultThreshold, 1001}

\* the sets of changed lines of the model: no line, and the first line
LineSets == {{}, {1}}
InitialFiles == {Absent} \cup {SrcFile(n) : n \in SourceNames}

\* what subprocess.run does with the test command: the shell's exit status,
\* 127 when the shell does not find the command, TimeoutExpired after 60 s,
\* OSError when the shell itself cannot be spawned
Outcomes == {"exit0", "exit1", "exit127", "timeout", "oserror"}

\* Killed with the TimeoutExpired handler returning False
KilledTimeoutSurvives(outcome) == outcome \notin {"exit0", "timeout"}

\* the value test_mutant returns for an outcome that does not raise:
\* r.returncode != 0, and True in the TimeoutExpired handler
Killed(outcome) == outcome # "exit0"

\* sum(1 for r in results if r["killed"])
KilledCount(results) == Len(SelectSeq(results, LAMBDA r : r.killed))

\* Survivors with the filter inverted
SurvivorsInverted(results) == SelectSeq(results, LAMBDA r : r.killed)

\* [r for r in results if not r["killed"]]
Survivors(results) == SelectSeq(results, LAMBDA r : ~r.killed)

\* RateAtLeast with the rate of an empty result list taken as 0.0
RateAtLeastZeroWhenEmpty(killed_n, total, thr) ==
  IF total = 0 THEN 0 >= thr ELSE killed_n * 1000 >= thr * total

\* rate >= threshold, with rate = killed_n / total * 100 if total else 100.0,
\* the rate not rounded
RateAtLeast(killed_n, total, thr) ==
  IF total = 0 THEN 1000 >= thr ELSE killed_n * 1000 >= thr * total

\* round(rate, 1) in tenths: to the nearest tenth, ties to the even tenth
Round1(killed_n, total) ==
  IF total = 0 THEN 1000
  ELSE LET q == killed_n * 1000
           fl == q \div total
           r2 == 2 * (q % total)
       IN IF r2 > total \/ (r2 = total /\ fl % 2 = 1) THEN fl + 1 ELSE fl

\* the report dict of lines 66-72
MakeReport(results, thr) ==
  LET total == Len(results)
      killed_n == KilledCount(results)
      survivors == Survivors(results)
  IN [status |-> IF RateAtLeast(killed_n, total, thr) THEN "pass" ELSE "fail",
      total |-> total, killed |-> killed_n, survived |-> Len(survivors),
      kill_rate |-> Round1(killed_n, total), threshold |-> thr,
      survivors |-> survivors]

\* the report of the early return, lines 54-55
EmptyReport(thr) ==
  [status |-> "pass", total |-> 0, killed |-> 0, survived |-> 0,
   kill_rate |-> 1000, threshold |-> thr, survivors |-> <<>>]

\* no report returned yet
NoReport ==
  [status |-> "none", total |-> 0, killed |-> 0, survived |-> 0,
   kill_rate |-> 0, threshold |-> 0, survivors |-> <<>>]

(* ------------------------------ state ---------------------------------- *)
VARIABLES
  changes,    \* the ChangeSet, in dict order: changes[i].lines for path i
  disk,       \* disk[i]: content of the file of path i
  bak,        \* content of <path>.mutagate.bak
  pc,         \* position in run_mutation_testing / test_mutant
  fi,         \* index of the entry the outer loop is at
  source,     \* the content read at line 62
  mutants,    \* apply_mutations(source, lines)
  mi,         \* index of the mutant the inner loop is at
  rc,         \* outcome of the test command of the evaluation under way
  killed,     \* value test_mutant returns
  exc,        \* exception in flight in test_mutant
  results,    \* the results list
  report,     \* the dict run_mutation_testing returns
  orig,       \* history: the disk before the run
  pre,        \* history: content of the target file when test_mutant was called
  allNonzero, \* history: every test command so far exited nonzero
  generated   \* history: per entry passed, the number of mutants generated

vars == <<changes, disk, bak, pc, fi, source, mutants, mi, rc,
          killed, exc, results, report, orig, pre, allNonzero, generated>>

Entries == [lines : LineSets]

Init ==
  /\ \E n \in 0..MaxFiles :
       /\ changes \in [1..n -> Entries]
       /\ disk \in [1..n -> InitialFiles]
  /\ bak = Absent
  /\ pc = "start"
  /\ fi = 0
  /\ source = Absent
  /\ mutants = <<>>
  /\ mi = 0
  /\ rc = "none"
  /\ killed = FALSE
  /\ exc = "none"
  /\ results = <<>>
  /\ report = NoReport
  /\ orig = disk
  /\ pre = Absent
  /\ allNonzero = TRUE
  /\ generated = <<>>

(* --------------------- run_mutation_testing ---------------------------- *)
\* lines 53-55: `if not changes: return {...}`
EmptyChangeSet ==
  /\ pc = "start"
  /\ changes = <<>>
  /\ \E threshold \in Thresholds : report' = EmptyReport(threshold)
  /\ pc' = "done"
  /\ UNCHANGED <<changes, disk, bak, fi, source, mutants, mi, rc,
                 killed, exc, results, orig, pre, allNonzero, generated>>

\* lines 56-57: results = [] and the first entry of changes.items()
BeginLoop ==
  /\ pc = "start"
  /\ changes # <<>>
  /\ results' = <<>>
  /\ fi' = 1
  /\ pc' = "file"
  /\ UNCHANGED <<changes, disk, bak, source, mutants, mi, rc,
                 killed, exc, report, orig, pre, allNonzero, generated>>

\* SkipMissingFile without the os.path.exists test: open(full) raises
MissingFileRaises ==
  /\ pc = "file"
  /\ fi <= Len(changes)
  /\ disk[fi] = Absent
  /\ exc' = "OSError"
  /\ pc' = "aborted"
  /\ UNCHANGED <<changes, disk, bak, fi, source, mutants, mi, rc, killed,
                 results, report, orig, pre, allNonzero, generated>>

\* lines 59-60: `if not os.path.exists(full): continue`
SkipMissingFile ==
  /\ pc = "file"
  /\ fi <= Len(changes)
  /\ disk[fi] = Absent
  /\ fi' = fi + 1
  /\ generated' = Append(generated, 0)
  /\ UNCHANGED <<changes, disk, bak, pc, source, mutants, mi, rc,
                 killed, exc, results, report, orig, pre, allNonzero>>

\* lines 61-63: read the file once and generate its mutants
ReadAndGenerate ==
  /\ pc = "file"
  /\ fi <= Len(changes)
  /\ disk[fi] # Absent
  /\ source' = disk[fi]
  /\ mutants' = apply_mutations(disk[fi].name, changes[fi].lines)
  /\ mi' = 1
  /\ pc' = "mutant"
  /\ generated' = Append(generated, Len(mutants'))
  /\ UNCHANGED <<changes, disk, bak, fi, rc, killed, exc, results,
                 report, orig, pre, allNonzero>>

\* line 63: the mutants of this file are exhausted, next entry
FileDone ==
  /\ pc = "mutant"
  /\ mi > Len(mutants)
  /\ fi' = fi + 1
  /\ pc' = "file"
  /\ UNCHANGED <<changes, disk, bak, source, mutants, mi, rc,
                 killed, exc, results, report, orig, pre, allNonzero, generated>>

(* ---------------------------- test_mutant ------------------------------ *)
\* lines 32-33: shutil.copy2(original_path, backup)
Backup ==
  /\ pc = "mutant"
  /\ mi <= Len(mutants)
  /\ pre' = disk[fi]
  /\ bak' = disk[fi]
  /\ rc' = "none"
  /\ exc' = "none"
  /\ pc' = "try"
  /\ UNCHANGED <<changes, disk, fi, source, mutants, mi, killed,
                 results, report, orig, allNonzero, generated>>

\* lines 35-36: the file now holds the mutant
WriteMutant ==
  /\ pc = "try"
  /\ disk' = [disk EXCEPT ![fi] = CodeFile(mutants[mi].code)]
  /\ pc' = "run"
  /\ UNCHANGED <<changes, bak, fi, source, mutants, mi, rc, killed,
                 exc, results, report, orig, pre, allNonzero, generated>>

\* lines 35-36 raising OSError: open() fails and leaves the file alone, or
\* f.write fails after open() truncated it
WriteFails ==
  /\ pc = "try"
  /\ \E left \in {disk[fi], Truncated} :
       disk' = [disk EXCEPT ![fi] = left]
  /\ exc' = "OSError"
  /\ pc' = "finally"
  /\ UNCHANGED <<changes, bak, fi, source, mutants, mi, rc, killed,
                 results, report, orig, pre, allNonzero, generated>>

\* lines 37-42: subprocess.run of the test command, which may itself write
\* to the file it is run against
RunTests ==
  /\ pc = "run"
  /\ \E outcome \in Outcomes, left \in {disk[fi], Clobbered} :
       /\ rc' = outcome
       /\ disk' = [disk EXCEPT ![fi] = left]
       /\ IF outcome = "oserror"
          THEN exc' = "OSError" /\ UNCHANGED killed
          ELSE exc' = "none" /\ killed' = Killed(outcome)
       /\ allNonzero' = (allNonzero /\ outcome \in {"exit1", "exit127"})
  /\ pc' = "finally"
  /\ UNCHANGED <<changes, bak, fi, source, mutants, mi, results,
                 report, orig, pre, generated>>

\* Finally as an `except` clause would do it: the backup is moved back only
\* when an exception is in flight
RestoreOnlyOnError ==
  /\ pc = "finally"
  /\ disk' = IF exc = "none" THEN disk ELSE [disk EXCEPT ![fi] = bak]
  /\ bak' = IF exc = "none" THEN bak ELSE Absent
  /\ pc' = IF exc = "none" THEN "returned" ELSE "aborted"
  /\ UNCHANGED <<changes, fi, source, mutants, mi, rc, killed, exc,
                 results, report, orig, pre, allNonzero, generated>>

\* Finally as the last statement of the try body would do it: the backup is
\* moved back only when nothing was raised
RestoreOnlyOnSuccess ==
  /\ pc = "finally"
  /\ disk' = IF exc = "none" THEN [disk EXCEPT ![fi] = bak] ELSE disk
  /\ bak' = IF exc = "none" THEN Absent ELSE bak
  /\ pc' = IF exc = "none" THEN "returned" ELSE "aborted"
  /\ UNCHANGED <<changes, fi, source, mutants, mi, rc, killed, exc,
                 results, report, orig, pre, allNonzero, generated>>

\* lines 43-44: shutil.move(backup, original_path), then the return or the
\* propagation of the exception in flight
Finally ==
  /\ pc = "finally"
  /\ disk' = [disk EXCEPT ![fi] = bak]
  /\ bak' = Absent
  /\ pc' = IF exc = "none" THEN "returned" ELSE "aborted"
  /\ UNCHANGED <<changes, fi, source, mutants, mi, rc, killed, exc,
                 results, report, orig, pre, allNonzero, generated>>

\* line 65: results.append({**m, "file": fpath, "killed": killed})
AppendResult ==
  /\ pc = "returned"
  /\ results' = Append(results,
       [code |-> mutants[mi].code, line |-> mutants[mi].line,
        operator |-> mutants[mi].operator,
        description |-> mutants[mi].description,
        suggestion |-> mutants[mi].suggestion,
        file |-> fi, killed |-> killed])
  /\ mi' = mi + 1
  /\ rc' = "none"
  /\ pc' = "mutant"
  /\ UNCHANGED <<changes, disk, bak, fi, source, mutants, killed, exc,
                 report, orig, pre, allNonzero, generated>>

\* lines 66-72: the loop over changes is over, the report is returned
Finish ==
  /\ pc = "file"
  /\ fi > Len(changes)
  /\ \E threshold \in Thresholds : report' = MakeReport(results, threshold)
  /\ pc' = "done"
  /\ UNCHANGED <<changes, disk, bak, fi, source, mutants, mi, rc,
                 killed, exc, results, orig, pre, allNonzero, generated>>

Next ==
  \/ EmptyChangeSet
  \/ BeginLoop
  \/ SkipMissingFile
  \/ ReadAndGenerate
  \/ FileDone
  \/ Backup
  \/ WriteMutant
  \/ WriteFails
  \/ RunTests
  \/ Finally
  \/ AppendResult
  \/ Finish

Spec == Init /\ [][Next]_vars

(* ------------------------------ claims --------------------------------- *)

\* C1: when test_mutant has returned or raised, whichever way it left (the
\* test command exited 0 or nonzero or timed out, or writing the mutant or
\* spawning the command raised), the target file holds the content it held
\* when test_mutant was called.
RestoredOnEveryExit ==
  pc \in {"returned", "aborted"} => disk[fi] = pre

\* an evaluation that raised while writing the mutant, the file restored
RestoredAfterRaise ==
  pc = "aborted" /\ exc = "OSError" /\ rc = "none" /\ disk[fi] = pre

\* C2: test_mutant returns True exactly when the test command exited nonzero
\* or timed out, that value is the killed flag of the result, and a command
\* that exits nonzero against every mutant gives kill_rate = 100.0.
KilledIffNonzeroOrTimeout ==
  /\ pc = "returned" => (killed <=> rc \in {"exit1", "exit127", "timeout"})
  /\ pc = "returned" /\ ~killed => rc = "exit0"
  /\ pc = "mutant" /\ mi > 1 => results[Len(results)].killed = killed
  /\ pc = "done" /\ allNonzero => report.kill_rate = 1000

KilledByTimeout ==
  pc = "returned" /\ rc = "timeout" /\ killed

\* C3: in every report, status is "pass" exactly when the reported kill_rate
\* is at least the threshold.
StatusIffReportedRateAtLeastThreshold ==
  pc = "done" =>
    (report.status = "pass" <=> report.kill_rate >= report.threshold)

MutantLinesInTargetLines ==
  pc = "mutant" =>
    \A i \in DOMAIN mutants : mutants[i].line \in changes[fi].lines

\* the nodes of tree t whose text differs in tc
Changed(t, tc) ==
  {o \in DOMAIN t.obj : UnparseNode(t, o) # UnparseNode(tc, o)}

\* the changed nodes none of whose children changed: where t was rewritten
RewrittenNodes(t, tc) ==
  {o \in Changed(t, tc) :
     \A i \in DOMAIN t.obj[o].children : t.obj[o].children[i].id \notin Changed(t, tc)}

\* C6: every mutant is the text of the baseline tree rewritten at exactly
\* one node, the node of its own site: never no change, never two.
SinglePointMutation ==
  pc = "mutant" =>
    LET tree == _label(Parse(source.name))
        sites == _collect_sites(tree, changes[fi].lines)
    IN \A i \in DOMAIN mutants :
         LET tc == MutatedTree(tree, sites[i]) IN
         /\ mutants[i].code = unparse(tc)
         /\ \E o \in DOMAIN tree.obj :
              /\ tree.obj[o].mid = sites[i].mid
              /\ RewrittenNodes(tree, tc) = {o}

\* C7: when the test command cannot be started (the shell does not find it,
\* or the shell cannot be spawned), test_mutant does not return a verdict
\* for the pipeline to record.
NoVerdictWhenCommandCannotStart ==
  ~(pc = "returned" /\ rc \in {"exit127", "oserror"})

RECURSIVE Sum(_)
Sum(ns) == IF ns = <<>> THEN 0 ELSE Head(ns) + Sum(Tail(ns))

\* C8: a missing or unparseable file contributes no result and does not
\* abort the run: the run aborts only inside the evaluation of a mutant of
\* an existing, parseable file; between files there is one result per
\* mutant generated so far; and the report's total is the number of mutants
\* generated, each file having one result per mutant generated from it and
\* a missing or unparseable file none.
MissingOrUnparseableSkipped ==
  /\ pc = "aborted" =>
       /\ orig[fi] # Absent /\ ~ParseFails(orig[fi].name)
       /\ mi \in DOMAIN mutants
  /\ pc = "file" => Len(results) = Sum(generated)
  /\ pc = "done" /\ changes # <<>> =>
       /\ report.total = Sum(generated)
       /\ Len(generated) = Len(changes)
       /\ \A i \in DOMAIN changes :
            /\ Len(SelectSeq(results, LAMBDA r : r.file = i)) = generated[i]
            /\ (orig[i] = Absent \/ ParseFails(orig[i].name)) => generated[i] = 0

\* a missing or unparseable first file, and results from the second
SkippedThenEvaluated ==
  /\ pc = "done" /\ Len(changes) >= 2
  /\ (orig[1] = Absent \/ ParseFails(orig[1].name))
  /\ report.total > 0 /\ results[1].file = 2

RECURSIVE NotKilled(_)
NotKilled(rs) ==
  IF rs = <<>> THEN <<>>
  ELSE (IF Head(rs).killed = FALSE THEN <<Head(rs)>> ELSE <<>>) \o NotKilled(Tail(rs))

\* C9: in every report killed + survived = total, survived is the length of
\* survivors, and survivors is the results with killed = false, each once,
\* in evaluation order.
SurvivorsAreTheNotKilled ==
  pc = "done" =>
    /\ report.killed + report.survived = report.total
    /\ report.total = Len(results)
    /\ report.survived = Len(report.survivors)
    /\ report.survivors = NotKilled(results)
    /\ \A k \in DOMAIN report.survivors : ~report.survivors[k].killed

MixedReport ==
  pc = "done" /\ report.killed > 0 /\ report.survived > 0

\* C10: at most one file differs from its original content at any time;
\* while the test command runs for mutant m of file f, f holds m's code and
\* every other file its original content; and every mutant is written over
\* the original content.
OneMutantLive ==
  /\ Cardinality({i \in DOMAIN disk : disk[i] # orig[i]}) <= 1
  /\ pc = "run" =>
       /\ disk[fi] = CodeFile(mutants[mi].code)
       /\ \A i \in DOMAIN disk : i # fi => disk[i] = orig[i]
  /\ pc = "try" => \A i \in DOMAIN disk : disk[i] = orig[i]

\* the test command running for a mutant of the second file after mutants
\* of the first file and of the second were evaluated
SecondFileMutantLive ==
  /\ pc = "run" /\ fi = 2 /\ mi > 1
  /\ results # <<>> /\ results[1].file = 1
  /\ disk[2] = CodeFile(mutants[mi].code) /\ disk[1] = orig[1]

=============================================================================
